---------------------------- MODULE Spec2Model ----------------------------
(***************************************************************************)
(* Model of ht::HashTable<Key, Value> (src/hash_table.hpp), a hopscotch    *)
(* hash table with load-factor driven resizing.                            *)
(*                                                                         *)
(* A table slot (Bucket) is <<>> when it is nullptr and <<k, v>> when it   *)
(* points to a pair; `table` is a function on 0 .. n-1 like the vector.    *)
(* Load factors are doubles in the source; the model keeps them as a       *)
(* number of sixteenths (LF_DEN), which are exact as doubles, so that         *)
(* size/capacity > maxLoadFactor is size * LF_DEN > maxLoadFactor * cap.   *)
(* NBHD_SIZE is 32 in the source; the model scales the neighbourhood down  *)
(* and INITIAL_CPTY follows it as in the source (INITIAL_CPTY = NBHD_SIZE).*)
(* NBHD_SIZE is a variable that the initial predicate fixes and no action  *)
(* changes, so that a specification can take a wider neighbourhood:        *)
(* NbhdSize in Spec, WideNbhdSize in SpecWide.                             *)
(* The hash function is the injected customHashFn, fixed at construction.  *)
(* `other` is a second HashTable object made from the first by the copy    *)
(* constructor or by operator=; a pair both objects point to is             *)
(* <<k, v, id>>.  It stays NoTable in every specification but SpecCopy.     *)
(***************************************************************************)
EXTENDS Integers, Sequences, FiniteSets, TLC

NbhdSize == 2
WideNbhdSize == 3
LF_DEN == 16
MIN_LOAD_FACTOR == 4
MAX_LOAD_FACTOR == 12

NumKeys == 3
NumValues == 2
MaxHash == 1
MaxCapacity == 4
NumCopyKeys == 2
MaxCopyCalls == 2

Keys == 1 .. NumKeys
Values == 1 .. NumValues
\* Keys are interchangeable, so only the monotone hash functions are drawn.
HashFunctions ==
    {hf \in [Keys -> 0 .. MaxHash] :
        \A a, b \in Keys : a <= b => hf[a] <= hf[b]}
\* Arguments <<max, min>> of setLoadFactors: three accepted pairs (a very low
\* maximum, a wide range, a very high minimum) and one rejected pair for each
\* test of line 151.
LoadFactorArgs ==
    {<<2, 1>>, <<16, 1>>, <<16, 14>>,
     <<16, 0>>, <<16, 17>>, <<0, 1>>, <<17, 1>>, <<2, 14>>}

\* Arguments <<max, min>> of the constructor: the defaults and a pair with
\* the minimum above the maximum.
ConstructorLoadFactorArgs ==
    {<<MAX_LOAD_FACTOR, MIN_LOAD_FACTOR>>, <<MIN_LOAD_FACTOR, MAX_LOAD_FACTOR>>}

\* The keys used on a table and its copy.
CopyKeys == 1 .. NumCopyKeys

\* T(), the value operator[] inserts for a missing key.
DefaultValue == 1

nullptr == <<>>
nullopt == 0

VARIABLES table, capacity, size, minLoadFactor, maxLoadFactor, customHashFn,
          expectedSize, last, NBHD_SIZE, other

vars == <<table, capacity, size, minLoadFactor, maxLoadFactor, customHashFn,
          expectedSize, last, NBHD_SIZE, other>>

INITIAL_CPTY == NBHD_SIZE

\* One expectedSize below INITIAL_CPTY and one above it.
ExpectedSizes == {INITIAL_CPTY - 1, INITIAL_CPTY + 1}

-----------------------------------------------------------------------------
(* Helpers of the class *)

MinOf(S) == CHOOSE x \in S : \A y \in S : x <= y

EmptyTable(n) == [i \in 0 .. n - 1 |-> nullptr]

hash(hf, k, range) == hf[k] % range

\* A variant that tests the load factor as it was before size++.
maxLoadFactorExceededBeforeIncrement(sz, cap, maxLF) ==
    (sz - 1) * LF_DEN > maxLF * cap

maxLoadFactorExceeded(sz, cap, maxLF) == sz * LF_DEN > maxLF * cap

minLoadFactorExceeded(sz, cap, minLF) == sz * LF_DEN < minLF * cap

\* Offsets 0 .. NBHD_SIZE-1 from home h whose slot holds key k.
MatchOffsets(tbl, cap, h, k) ==
    {i \in 0 .. NBHD_SIZE - 1 :
        tbl[(h + i) % cap] # nullptr /\ tbl[(h + i) % cap][1] = k}

getBucket(tbl, cap, hf, k) ==
    LET h == hash(hf, k, cap)
        m == MatchOffsets(tbl, cap, h, k)
    IN  IF m = {} THEN nullptr ELSE tbl[(h + MinOf(m)) % cap]

contains(tbl, cap, hf, k) ==
    MatchOffsets(tbl, cap, hash(hf, k, cap), k) # {}

getValue(tbl, cap, hf, k) ==
    LET b == getBucket(tbl, cap, hf, k)
    IN  IF b = nullptr THEN nullopt ELSE b[2]

-----------------------------------------------------------------------------
(* resize *)

\* The displacement loop of resize (lines 466-482) for entry e with home h,
\* entered with j = NBHD_SIZE.  "exit" is a normal loop exit (condition false
\* or break); "spin" is the branch that only executes i++ with an unchanged
\* loop condition.
RECURSIVE ResizeWalk(_, _, _, _, _)
ResizeWalk(temp, cap, h, j, e) ==
    IF (h + j) % cap = h
    THEN [kind |-> "exit", temp |-> temp]
    ELSE IF temp[(h + j) % cap] = nullptr
         THEN LET k  == j
                  j2 == j - (NBHD_SIZE - 1)
                  t1 == [temp EXCEPT ![(h + k) % cap] = temp[(h + j2) % cap]]
                  t2 == [t1 EXCEPT ![(h + j2) % cap] = nullptr]
              IN  IF j2 < NBHD_SIZE
                  THEN [kind |-> "exit",
                        temp |-> [t2 EXCEPT ![(h + j2) % cap] = e]]
                  ELSE ResizeWalk(t2, cap, h, j2, e)
         ELSE [kind |-> "spin", temp |-> temp]

\* The transfer loop of resize from old index i on.  The result is the set of
\* outcomes: the spinning loop has no side effect and never ends, which is
\* undefined behaviour; a build either hangs in it or drops the loop and
\* goes on at line 485.
RECURSIVE Rehash(_, _, _, _, _, _)
Rehash(tbl, oldCapacity, cap, hf, i, temp) ==
    IF i >= oldCapacity
    THEN {[outcome |-> "ok", table |-> temp]}
    ELSE IF tbl[i] = nullptr
    THEN Rehash(tbl, oldCapacity, cap, hf, i + 1, temp)
    ELSE LET h    == hash(hf, tbl[i][1], cap)
             free == {j \in 0 .. NBHD_SIZE - 1 : temp[(h + j) % cap] = nullptr}
             w    == ResizeWalk(temp, cap, h, NBHD_SIZE, tbl[i])
             after == IF (h + i) % cap = h
                      THEN {[outcome |-> "ResizeFailed", table |-> tbl]}
                      ELSE Rehash(tbl, oldCapacity, cap, hf, i + 1, w.temp)
         IN  IF free # {}
             THEN Rehash(tbl, oldCapacity, cap, hf, i + 1,
                         [temp EXCEPT ![(h + MinOf(free)) % cap] = tbl[i]])
             ELSE IF w.kind = "exit"
                  THEN after
                  ELSE {[outcome |-> "Hang", table |-> tbl]} \cup after

\* resize(newCapacity): the set of possible [outcome, table].  capacity is
\* newCapacity in every outcome (line 441 runs first).
resize(tbl, oldCapacity, newCapacity, hf) ==
    Rehash(tbl, oldCapacity, newCapacity, hf, 0, EmptyTable(newCapacity))

-----------------------------------------------------------------------------
(* insert *)

\* Lines 241-261: offsets of the neighbourhood at which the first loop of
\* insert stops, an empty slot or a slot holding k.
InsertScan(tbl, cap, h, k) ==
    {i \in 0 .. NBHD_SIZE - 1 :
        tbl[(h + i) % cap] = nullptr \/ tbl[(h + i) % cap][1] = k}

\* Lines 265-290: the displacement loop of insert, entered with i = NBHD_SIZE.
\* found: an empty slot was brought to offset i < NBHD_SIZE.
RECURSIVE InsertWalk(_, _, _, _)
InsertWalk(tbl, cap, h, i) ==
    IF (h + i) % cap = h
    THEN [found |-> FALSE, table |-> tbl, i |-> i]
    ELSE IF tbl[(h + i) % cap] = nullptr
         THEN LET j  == i
                  i2 == i - (NBHD_SIZE - 1)
                  t1 == [tbl EXCEPT ![(h + j) % cap] = tbl[(h + i2) % cap]]
                  t2 == [t1 EXCEPT ![(h + i2) % cap] = nullptr]
              IN  IF i2 < NBHD_SIZE
                  THEN [found |-> TRUE, table |-> t2, i |-> i2]
                  ELSE InsertWalk(t2, cap, h, i2)
         ELSE InsertWalk(tbl, cap, h, i + 1)

\* A variant of the growth step that grows as soon as the maximum load factor
\* is reached.
PlaceAndGrowWhenReached(tbl, cap, sz, maxLF, hf) ==
    IF sz * LF_DEN >= maxLF * cap
    THEN {[outcome |-> r.outcome, inserted |-> (r.outcome = "ok"),
           removed |-> nullopt, resized |-> "grow", table |-> r.table,
           capacity |-> 2 * cap, size |-> sz] :
              r \in resize(tbl, cap, 2 * cap, hf)}
    ELSE {[outcome |-> "ok", inserted |-> TRUE, removed |-> nullopt,
           resized |-> "no", table |-> tbl, capacity |-> cap, size |-> sz]}

\* Lines 245-254 and 276-285: size was incremented to sz, tbl holds the new
\* pair; grow when the maximum load factor is exceeded.
PlaceAndGrow(tbl, cap, sz, maxLF, hf) ==
    IF maxLoadFactorExceeded(sz, cap, maxLF)
    THEN {[outcome |-> r.outcome, inserted |-> (r.outcome = "ok"),
           removed |-> nullopt, resized |-> "grow", table |-> r.table,
           capacity |-> 2 * cap, size |-> sz] :
              r \in resize(tbl, cap, 2 * cap, hf)}
    ELSE {[outcome |-> "ok", inserted |-> TRUE, removed |-> nullopt,
           resized |-> "no", table |-> tbl, capacity |-> cap, size |-> sz]}

\* insert(k, v): the set of possible results of the call.
insert(tbl, cap, sz, maxLF, hf, k, v) ==
    LET h    == hash(hf, k, cap)
        hits == InsertScan(tbl, cap, h, k)
        at   == (h + MinOf(hits)) % cap
        w    == InsertWalk(tbl, cap, h, NBHD_SIZE)
    IN  IF hits # {}
        THEN IF tbl[at] = nullptr
             THEN PlaceAndGrow([tbl EXCEPT ![at] = <<k, v>>],
                               cap, sz + 1, maxLF, hf)
             ELSE {[outcome |-> "ok", inserted |-> FALSE, removed |-> nullopt,
                    resized |-> "no", table |-> tbl, capacity |-> cap,
                    size |-> sz]}
        ELSE IF w.found
             THEN PlaceAndGrow([w.table EXCEPT ![(h + w.i) % cap] = <<k, v>>],
                               cap, sz + 1, maxLF, hf)
             ELSE {[outcome |-> "InsertionFailed", inserted |-> FALSE,
                    removed |-> nullopt, resized |-> "no", table |-> w.table,
                    capacity |-> cap, size |-> sz]}

-----------------------------------------------------------------------------
(* remove *)

\* Line 311: the guard of the shrinking resize.
ShrinkNeeded(sz, cap, minLF) ==
    minLoadFactorExceeded(sz, cap, minLF) /\ cap > INITIAL_CPTY

\* A variant of the shrinking capacity that rounds down.
ShrinkCapacityRoundedDown(cap) == cap \div 2

\* Lines 159 and 312: the capacity a shrinking resize asks for.
ShrinkCapacity(cap) == (cap + 1) \div 2

\* A variant of the miss that counts the key as removed.
removeMissDecrementsSize(tbl, cap, sz) ==
    {[outcome |-> "ok", inserted |-> FALSE, removed |-> nullopt,
      resized |-> "no", table |-> tbl, capacity |-> cap, size |-> sz - 1]}

\* Line 319: k is in no slot of its neighbourhood.
removeMiss(tbl, cap, sz) ==
    {[outcome |-> "ok", inserted |-> FALSE, removed |-> nullopt,
      resized |-> "no", table |-> tbl, capacity |-> cap, size |-> sz]}

\* remove(k): the set of possible results of the call.
remove(tbl, cap, sz, minLF, hf, k) ==
    LET h  == hash(hf, k, cap)
        m  == MatchOffsets(tbl, cap, h, k)
        at == (h + MinOf(m)) % cap
        r  == tbl[at][2]
        t1 == [tbl EXCEPT ![at] = nullptr]
    IN  IF m = {}
        THEN removeMiss(tbl, cap, sz)
        ELSE IF ShrinkNeeded(sz - 1, cap, minLF)
             THEN {[outcome |-> x.outcome, inserted |-> FALSE,
                    removed |-> IF x.outcome = "ok" THEN r ELSE nullopt,
                    resized |-> "shrink", table |-> x.table,
                    capacity |-> ShrinkCapacity(cap), size |-> sz - 1] :
                       x \in resize(t1, cap, ShrinkCapacity(cap), hf)}
             ELSE {[outcome |-> "ok", inserted |-> FALSE, removed |-> r,
                    resized |-> "no", table |-> t1, capacity |-> cap,
                    size |-> sz - 1]}

-----------------------------------------------------------------------------
(* setLoadFactors *)

\* A variant of the validation without the test max > 1.0.
InvalidFactorsNoUpperMax(max, min) ==
    min <= 0 \/ min > LF_DEN \/ max <= 0 \/ max <= min

\* Line 151: the arguments setLoadFactors rejects.
InvalidFactors(max, min) ==
    min <= 0 \/ min > LF_DEN \/ max <= 0 \/ max > LF_DEN \/ max <= min

\* setLoadFactors(max, min): the set of possible results of the call.
setLoadFactors(tbl, cap, sz, hf, oldMax, oldMin, max, min) ==
    IF InvalidFactors(max, min)
    THEN {[outcome |-> "InvalidLoadFactors", resized |-> "no", table |-> tbl,
           capacity |-> cap, maxLoadFactor |-> oldMax,
           minLoadFactor |-> oldMin]}
    ELSE IF maxLoadFactorExceeded(sz, cap, max)
    THEN {[outcome |-> x.outcome, resized |-> "grow", table |-> x.table,
           capacity |-> 2 * cap, maxLoadFactor |-> max,
           minLoadFactor |-> min] :
              x \in resize(tbl, cap, 2 * cap, hf)}
    ELSE IF ShrinkNeeded(sz, cap, min)
    THEN {[outcome |-> x.outcome, resized |-> "shrink", table |-> x.table,
           capacity |-> ShrinkCapacity(cap),
           maxLoadFactor |-> max, minLoadFactor |-> min] :
              x \in resize(tbl, cap, ShrinkCapacity(cap), hf)}
    ELSE {[outcome |-> "ok", resized |-> "no", table |-> tbl, capacity |-> cap,
           maxLoadFactor |-> max, minLoadFactor |-> min]}

-----------------------------------------------------------------------------
(* The table as a state machine: one action per public call.  `last` is the *)
(* call that produced the state, with its arguments and its result; a call  *)
(* that hangs never returns, so nothing follows it.                         *)

Call(op, k, v, max, min, r) ==
    [op |-> op, k |-> k, v |-> v, max |-> max, min |-> min,
     outcome |-> r.outcome, inserted |-> r.inserted, removed |-> r.removed,
     resized |-> r.resized]

\* No second table has been made yet.
NoTable ==
    [made |-> "none", table |-> <<>>, capacity |-> 0, size |-> 0,
     minLoadFactor |-> 0, maxLoadFactor |-> 0, calls |-> 0]

\* One more call was made on one of the two tables since the second table
\* exists.
Called(o) ==
    IF o.made = "none" THEN o ELSE [o EXCEPT !.calls = o.calls + 1]

\* Lines 123-135: the constructor for a neighbourhood of n slots; it stores
\* the thresholds it is given without testing them.
ConstructWith(n, max, min) ==
    /\ NBHD_SIZE = n
    /\ expectedSize \in ExpectedSizes
    /\ customHashFn \in HashFunctions
    /\ capacity = IF expectedSize < INITIAL_CPTY THEN INITIAL_CPTY
                  ELSE expectedSize
    /\ table = EmptyTable(capacity)
    /\ size = 0
    /\ minLoadFactor = min
    /\ maxLoadFactor = max
    /\ other = NoTable
    /\ last = Call("construct", 0, 0, 0, 0,
                   [outcome |-> "ok", inserted |-> FALSE, removed |-> nullopt,
                    resized |-> "no"])

\* The constructor with default thresholds.
Construct(n) == ConstructWith(n, MAX_LOAD_FACTOR, MIN_LOAD_FACTOR)

\* The constructor with threshold arguments <<max, min>>.
InitThresholds ==
    \E a \in ConstructorLoadFactorArgs : ConstructWith(NbhdSize, a[1], a[2])

Init == Construct(NbhdSize)

InitWide == Construct(WideNbhdSize)

Insert(k, v) ==
    /\ last.outcome # "Hang"
    /\ \E r \in insert(table, capacity, size, maxLoadFactor, customHashFn, k, v) :
          /\ r.capacity <= MaxCapacity
          /\ table' = r.table
          /\ capacity' = r.capacity
          /\ size' = r.size
          /\ last' = Call("insert", k, v, 0, 0, r)
    /\ other' = Called(other)
    /\ UNCHANGED <<minLoadFactor, maxLoadFactor, customHashFn, expectedSize,
                   NBHD_SIZE>>

Remove(k) ==
    /\ last.outcome # "Hang"
    /\ \E r \in remove(table, capacity, size, minLoadFactor, customHashFn, k) :
          /\ table' = r.table
          /\ capacity' = r.capacity
          /\ size' = r.size
          /\ last' = Call("remove", k, 0, 0, 0, r)
    /\ other' = Called(other)
    /\ UNCHANGED <<minLoadFactor, maxLoadFactor, customHashFn, expectedSize,
                   NBHD_SIZE>>

SetLoadFactors(max, min) ==
    /\ last.outcome # "Hang"
    /\ \E r \in setLoadFactors(table, capacity, size, customHashFn,
                               maxLoadFactor, minLoadFactor, max, min) :
          /\ r.capacity <= MaxCapacity
          /\ table' = r.table
          /\ capacity' = r.capacity
          /\ maxLoadFactor' = r.maxLoadFactor
          /\ minLoadFactor' = r.minLoadFactor
          /\ last' = Call("setLoadFactors", 0, 0, max, min,
                          [outcome |-> r.outcome, inserted |-> FALSE,
                           removed |-> nullopt, resized |-> r.resized])
    /\ other' = Called(other)
    /\ UNCHANGED <<size, customHashFn, expectedSize, NBHD_SIZE>>

Next ==
    \/ \E k \in Keys, v \in Values : Insert(k, v)
    \/ \E k \in Keys : Remove(k)
    \/ \E a \in LoadFactorArgs : SetLoadFactors(a[1], a[2])

Spec == Init /\ [][Next]_vars

\* Only insert and remove are called: the thresholds stay as constructed.
NextInsertRemove ==
    \/ \E k \in Keys, v \in Values : Insert(k, v)
    \/ \E k \in Keys : Remove(k)

SpecInsertRemove == Init /\ [][NextInsertRemove]_vars

\* All three calls on a table with the wider neighbourhood.
SpecWide == InitWide /\ [][Next]_vars

\* All three calls on a table constructed with threshold arguments.
SpecThresholds == InitThresholds /\ [][Next]_vars

-----------------------------------------------------------------------------
(* A second table made from the first one.  `other` is the second HashTable *)
(* object; both objects use the same hash function.  A slot holds a         *)
(* shared_ptr to a pair: a pair that both tables point to carries the       *)
(* identity of the object as a third component, a pair that one table       *)
(* alone points to has none.                                                *)

\* Two slots point to the same pair object.
SamePair(e, f) == Len(e) = 3 /\ Len(f) = 3 /\ e[3] = f[3]

\* Line 350 and the caller's assignment: the pair object receives value v.
WritePair(e, v) == [e EXCEPT ![2] = v]

\* The slot array after the pair object `target` received value v.
WriteThrough(tbl, target, v) ==
    [i \in DOMAIN tbl |->
        IF SamePair(tbl[i], target) THEN WritePair(tbl[i], v) ELSE tbl[i]]

\* Line 142: table(obj.table.begin(), obj.table.end()) copies the
\* shared_ptrs, so every pair of obj becomes a pair both tables point to.
SharePairs(tbl) ==
    [i \in DOMAIN tbl |->
        IF tbl[i] = nullptr THEN nullptr
        ELSE <<tbl[i][1], tbl[i][2], i + 1>>]

\* Lines 367-372: make_shared of a copy of every pair in the first capacity
\* slots of obj.
ClonePairs(tbl, cap) ==
    [i \in 0 .. cap - 1 |->
        IF tbl[i] = nullptr THEN nullptr ELSE <<tbl[i][1], tbl[i][2]>>]

\* The slot in which getBucket(k) finds k.
BucketSlot(tbl, cap, hf, k) ==
    LET h == hash(hf, k, cap)
    IN  (h + MinOf(MatchOffsets(tbl, cap, h, k))) % cap

\* The result r of a call, with the slot whose pair operator[] returns.
WithSlot(r, outcome, at) ==
    [outcome |-> outcome, inserted |-> r.inserted, removed |-> r.removed,
     resized |-> r.resized, table |-> r.table, capacity |-> r.capacity,
     size |-> r.size, at |-> at]

\* Lines 347-354, operator[](key): the set of possible results.  T() is
\* DefaultValue.  at is the slot of the pair whose second component is
\* returned by reference, -1 when the call does not return.  When the second
\* getBucket finds nothing, line 353 dereferences a null pointer.
index(tbl, cap, sz, maxLF, hf, k) ==
    IF contains(tbl, cap, hf, k)
    THEN {[outcome |-> "ok", inserted |-> FALSE, removed |-> nullopt,
           resized |-> "no", table |-> tbl, capacity |-> cap, size |-> sz,
           at |-> BucketSlot(tbl, cap, hf, k)]}
    ELSE {IF r.outcome # "ok"
          THEN WithSlot(r, r.outcome, -1)
          ELSE IF contains(r.table, r.capacity, hf, k)
               THEN WithSlot(r, "ok", BucketSlot(r.table, r.capacity, hf, k))
               ELSE WithSlot(r, "NullDereference", -1) :
             r \in insert(tbl, cap, sz, maxLF, hf, k, DefaultValue)}

\* No call is stuck and no call has crashed the program.
Running == last.outcome \notin {"Hang", "NullDereference"}

\* HashTable other(table): the copy constructor.
CopyConstruct ==
    /\ Running
    /\ other.made = "none"
    /\ table' = SharePairs(table)
    /\ other' = [made |-> "constructor", table |-> SharePairs(table),
                 capacity |-> capacity, size |-> size,
                 minLoadFactor |-> minLoadFactor,
                 maxLoadFactor |-> maxLoadFactor, calls |-> 0]
    /\ last' = Call("copyConstruct", 0, 0, 0, 0,
                    [outcome |-> "ok", inserted |-> FALSE,
                     removed |-> nullopt, resized |-> "no"])
    /\ UNCHANGED <<capacity, size, minLoadFactor, maxLoadFactor, customHashFn,
                   expectedSize, NBHD_SIZE>>

\* other = table: the copy assignment.
CopyAssign ==
    /\ Running
    /\ other.made = "none"
    /\ other' = [made |-> "assignment",
                 table |-> ClonePairs(table, capacity),
                 capacity |-> capacity, size |-> size,
                 minLoadFactor |-> minLoadFactor,
                 maxLoadFactor |-> maxLoadFactor, calls |-> 0]
    /\ last' = Call("copyAssign", 0, 0, 0, 0,
                    [outcome |-> "ok", inserted |-> FALSE,
                     removed |-> nullopt, resized |-> "no"])
    /\ UNCHANGED <<table, capacity, size, minLoadFactor, maxLoadFactor,
                   customHashFn, expectedSize, NBHD_SIZE>>

\* table[k] = v.
IndexWrite(k, v) ==
    /\ Running
    /\ \E r \in index(table, capacity, size, maxLoadFactor, customHashFn, k) :
          /\ r.capacity <= MaxCapacity
          /\ IF r.at >= 0
             THEN /\ table' = [WriteThrough(r.table, r.table[r.at], v)
                                 EXCEPT ![r.at] = WritePair(r.table[r.at], v)]
                  /\ other' = Called([other EXCEPT !.table =
                                 WriteThrough(other.table, r.table[r.at], v)])
             ELSE /\ table' = r.table
                  /\ other' = Called(other)
          /\ capacity' = r.capacity
          /\ size' = r.size
          /\ last' = Call("indexWrite", k, v, 0, 0, r)
    /\ UNCHANGED <<minLoadFactor, maxLoadFactor, customHashFn, expectedSize,
                   NBHD_SIZE>>

\* The state of the second table after a call on it with result r.
OtherAfter(r, tbl) ==
    Called([other EXCEPT !.table = tbl, !.capacity = r.capacity,
                         !.size = r.size])

\* other.insert(k, v).
InsertOther(k, v) ==
    /\ Running
    /\ other.made # "none"
    /\ \E r \in insert(other.table, other.capacity, other.size,
                       other.maxLoadFactor, customHashFn, k, v) :
          /\ r.capacity <= MaxCapacity
          /\ other' = OtherAfter(r, r.table)
          /\ last' = Call("insertOther", k, v, 0, 0, r)
    /\ UNCHANGED <<table, capacity, size, minLoadFactor, maxLoadFactor,
                   customHashFn, expectedSize, NBHD_SIZE>>

\* other.remove(k).
RemoveOther(k) ==
    /\ Running
    /\ other.made # "none"
    /\ \E r \in remove(other.table, other.capacity, other.size,
                       other.minLoadFactor, customHashFn, k) :
          /\ other' = OtherAfter(r, r.table)
          /\ last' = Call("removeOther", k, 0, 0, 0, r)
    /\ UNCHANGED <<table, capacity, size, minLoadFactor, maxLoadFactor,
                   customHashFn, expectedSize, NBHD_SIZE>>

\* other[k] = v.
IndexWriteOther(k, v) ==
    /\ Running
    /\ other.made # "none"
    /\ \E r \in index(other.table, other.capacity, other.size,
                      other.maxLoadFactor, customHashFn, k) :
          /\ r.capacity <= MaxCapacity
          /\ IF r.at >= 0
             THEN /\ other' = OtherAfter(r,
                                 [WriteThrough(r.table, r.table[r.at], v)
                                    EXCEPT ![r.at] = WritePair(r.table[r.at], v)])
                  /\ table' = WriteThrough(table, r.table[r.at], v)
             ELSE /\ other' = OtherAfter(r, r.table)
                  /\ table' = table
          /\ last' = Call("indexWriteOther", k, v, 0, 0, r)
    /\ UNCHANGED <<capacity, size, minLoadFactor, maxLoadFactor, customHashFn,
                   expectedSize, NBHD_SIZE>>

\* The program is running and fewer than MaxCopyCalls calls were made since
\* the second table exists.
MayCall == Running /\ other.calls < MaxCopyCalls

\* insert, remove and operator[] on both tables, and the two ways of making
\* the second one.
NextCopy ==
    \/ \E k \in CopyKeys, v \in Values : MayCall /\ Insert(k, v)
    \/ \E k \in CopyKeys : MayCall /\ Remove(k)
    \/ \E k \in CopyKeys, v \in Values : MayCall /\ IndexWrite(k, v)
    \/ CopyConstruct
    \/ CopyAssign
    \/ \E k \in CopyKeys, v \in Values : MayCall /\ InsertOther(k, v)
    \/ \E k \in CopyKeys : MayCall /\ RemoveOther(k)
    \/ \E k \in CopyKeys, v \in Values : MayCall /\ IndexWriteOther(k, v)

SpecCopy == Init /\ [][NextCopy]_vars

-----------------------------------------------------------------------------
(* Well-formedness of the model's states *)

Returned == last.outcome # "Hang"

Occupied(tbl) == {i \in DOMAIN tbl : tbl[i] # nullptr}

TypeOK ==
    /\ capacity \in 1 .. MaxCapacity
    /\ size \in Nat
    /\ DOMAIN table = 0 .. Cardinality(DOMAIN table) - 1
    /\ Returned => capacity <= Cardinality(DOMAIN table)
    /\ \A i \in DOMAIN table :
          table[i] = nullptr \/ (table[i][1] \in Keys /\ table[i][2] \in Values)

-----------------------------------------------------------------------------
(* Properties *)

\* Key k is held by some slot of the slot array.
Stored(tbl, k) == \E i \in DOMAIN tbl : tbl[i] # nullptr /\ tbl[i][1] = k

\* Slot i lies in the neighbourhood of home h.
InNeighbourhood(cap, h, i) ==
    \E off \in 0 .. NBHD_SIZE - 1 : (h + off) % cap = i

\* The initial capacity the constructor sets for expectedSize.
InitialCapacity ==
    IF expectedSize < INITIAL_CPTY THEN INITIAL_CPTY ELSE expectedSize

\* C1: hop invariant.  After every call that returned or raised, every entry
\* of the table sits at (home(key) + offset) mod capacity for an offset in
\* 0 .. NBHD_SIZE-1, home being computed against the current capacity.
C1_HopInvariant ==
    Returned =>
       \A i \in DOMAIN table :
          table[i] # nullptr =>
             InNeighbourhood(capacity,
                             hash(customHashFn, table[i][1], capacity), i)

\* C2: key uniqueness.  After every call that returned or raised, no two
\* occupied slots hold the same key.
C2_KeyUniqueness ==
    Returned =>
       \A i, j \in DOMAIN table :
          (i # j /\ table[i] # nullptr /\ table[j] # nullptr)
             => table[i][1] # table[j][1]

\* C3: duplicate insert is a no-op.  A call insert(k, v2) made when
\* contains(k) is true returns false and leaves every slot, size, capacity and
\* getValue(k) as they were.
C3_DuplicateInsertNoOp ==
    [][(/\ last'.op = "insert"
        /\ contains(table, capacity, customHashFn, last'.k))
         => (/\ last'.outcome = "ok"
             /\ last'.inserted = FALSE
             /\ table' = table
             /\ size' = size
             /\ capacity' = capacity
             /\ getValue(table', capacity', customHashFn', last'.k)
                  = getValue(table, capacity, customHashFn, last'.k))]_vars

\* C4: round trip.  A call insert(k, v) for a key k that no slot holds
\* returns true, and afterwards contains(k) is true and getValue(k) is v.
C4_RoundTrip ==
    [][(/\ last'.op = "insert"
        /\ ~Stored(table, last'.k))
         => (/\ last'.outcome = "ok"
             /\ last'.inserted = TRUE
             /\ contains(table', capacity', customHashFn', last'.k)
             /\ getValue(table', capacity', customHashFn', last'.k) = last'.v)
      ]_vars

\* C5: other keys are not disturbed.  A call insert(k, v) or remove(k) that
\* returns normally leaves contains(k2) and getValue(k2) as they were for
\* every key k2 other than k.
C5_OtherKeysUndisturbed ==
    [][(/\ last'.op \in {"insert", "remove"}
        /\ last'.outcome = "ok")
         => \A k2 \in Keys \ {last'.k} :
               /\ contains(table', capacity', customHashFn', k2)
                    = contains(table, capacity, customHashFn, k2)
               /\ getValue(table', capacity', customHashFn', k2)
                    = getValue(table, capacity, customHashFn, k2)]_vars

\* C6: removing a present key.  A call remove(k) made when contains(k) is
\* true returns the value getValue(k) had, decreases size by one, and
\* afterwards contains(k) is false and getValue(k) is empty.
C6_RemovePresent ==
    [][(/\ last'.op = "remove"
        /\ contains(table, capacity, customHashFn, last'.k))
         => (/\ last'.outcome = "ok"
             /\ last'.removed = getValue(table, capacity, customHashFn, last'.k)
             /\ size' = size - 1
             /\ ~contains(table', capacity', customHashFn', last'.k)
             /\ getValue(table', capacity', customHashFn', last'.k) = nullopt)
      ]_vars

\* C7: remove miss.  A call remove(k) for a key that is not found in its
\* neighbourhood (so in particular for a key that no slot holds) returns the
\* empty result without raising and leaves size, capacity and every slot as
\* they were.
C7_RemoveMiss ==
    [][(/\ last'.op = "remove"
        /\ ~contains(table, capacity, customHashFn, last'.k))
         => (/\ last'.outcome = "ok"
             /\ last'.removed = nullopt
             /\ size' = size
             /\ capacity' = capacity
             /\ table' = table)]_vars

\* C7 witness: remove(k) has just missed on a table that holds other keys
\* and no entry for k.
C7_Witness ==
    /\ last.op = "remove"
    /\ last.outcome = "ok"
    /\ last.removed = nullopt
    /\ ~Stored(table, last.k)
    /\ size > 0

\* C8: size accounting.  After every call that returned or raised, size is
\* the number of occupied slots, so isEmpty() is true exactly when no slot is
\* occupied.
C8_SizeAccounting ==
    Returned =>
       /\ size = Cardinality(Occupied(table))
       /\ (size = 0) <=> (Occupied(table) = {})

\* C9 as stated: after an insert call has returned, size/capacity is at most
\* maxLoadFactor.
C9_LoadFactorBound ==
    (last.op = "insert" /\ last.outcome = "ok")
       => size * LF_DEN <= maxLoadFactor * capacity

\* C9 amended: an insert call that stores a new entry ends with
\* size/capacity <= maxLoadFactor when, before the call, size/capacity was at
\* most maxLoadFactor and maxLoadFactor was at least 1/capacity.
C9_LoadFactorBoundFromBoundedState ==
    [][(/\ last'.op = "insert"
        /\ last'.outcome = "ok"
        /\ last'.inserted = TRUE
        /\ size * LF_DEN <= maxLoadFactor * capacity
        /\ LF_DEN <= maxLoadFactor * capacity)
         => size' * LF_DEN <= maxLoadFactor' * capacity']_vars

\* C9 witness: an insert has just stored an entry and grown the table, and
\* the load factor is within the maximum.
C9_Witness ==
    /\ last.op = "insert"
    /\ last.outcome = "ok"
    /\ last.inserted = TRUE
    /\ last.resized = "grow"
    /\ size * LF_DEN <= maxLoadFactor * capacity

\* C10: shrink floor.  After every insert or remove that returned or raised,
\* capacity is at least the initial capacity the constructor set.
C10_ShrinkFloor ==
    Returned => capacity >= InitialCapacity

\* C11: minimum capacity.  After every call that returned or raised,
\* capacity is at least the neighbourhood size.
C11_MinimumCapacity ==
    Returned => capacity >= NBHD_SIZE

\* insert(k, v) finds neither k nor an empty slot in the neighbourhood of k
\* and the displacement search frees none.
InsertionPressure(tbl, cap, hf, k) ==
    LET h == hash(hf, k, cap)
    IN  /\ InsertScan(tbl, cap, h, k) = {}
        /\ ~InsertWalk(tbl, cap, h, NBHD_SIZE).found

\* C12: resize-then-retry.  An insert under insertion pressure resizes the
\* table, and InsertionFailed reaches the caller only after a resize attempt.
C12_ResizeThenRetry ==
    [][(/\ last'.op = "insert"
        /\ \/ InsertionPressure(table, capacity, customHashFn, last'.k)
           \/ last'.outcome = "InsertionFailed")
         => last'.resized = "grow"]_vars

\* C13: failure atomicity.  A call that raises InsertionFailed, ResizeFailed
\* or InvalidLoadFactors leaves the slot array, size, capacity and both
\* thresholds as they were, and capacity agrees with the length of the slot
\* array.
C13_FailureAtomicity ==
    [][(last'.outcome \in {"InsertionFailed", "ResizeFailed",
                           "InvalidLoadFactors"})
         => (/\ table' = table
             /\ size' = size
             /\ capacity' = capacity
             /\ minLoadFactor' = minLoadFactor
             /\ maxLoadFactor' = maxLoadFactor
             /\ capacity' = Cardinality(DOMAIN table'))]_vars

\* C14: invalid thresholds.  setLoadFactors(max, min) raises
\* InvalidLoadFactors exactly when min <= 0, min > 1, max <= 0, max > 1 or
\* max <= min, and then leaves both thresholds, capacity, size and every slot
\* as they were.
C14_InvalidThresholdsRejected ==
    [][(last'.op = "setLoadFactors")
         => (/\ (last'.outcome = "InvalidLoadFactors")
                  <=> (\/ last'.min <= 0
                       \/ last'.min > LF_DEN
                       \/ last'.max <= 0
                       \/ last'.max > LF_DEN
                       \/ last'.max <= last'.min)
             /\ (last'.outcome = "InvalidLoadFactors")
                  => (/\ minLoadFactor' = minLoadFactor
                      /\ maxLoadFactor' = maxLoadFactor
                      /\ capacity' = capacity
                      /\ size' = size
                      /\ table' = table))]_vars

\* C14 witness: setLoadFactors has just rejected a maximum above 1 on a table
\* that holds entries.
C14_Witness ==
    /\ last.op = "setLoadFactors"
    /\ last.outcome = "InvalidLoadFactors"
    /\ last.max > LF_DEN
    /\ size > 0

\* C15: termination.  Every call of insert, remove and setLoadFactors returns
\* or raises: no state is left by a call that is stuck in a loop.
C15_EveryCallTerminates ==
    last.op \in {"insert", "remove", "setLoadFactors"}
       => last.outcome \in {"ok", "InsertionFailed", "ResizeFailed",
                            "InvalidLoadFactors"}

\* C17: growth transition.  An insert that stores a new entry leaves the
\* capacity at exactly twice its value before the call when the new
\* size/capacity is strictly greater than maxLoadFactor, and unchanged
\* otherwise; a rejected (duplicate) insert never changes the capacity.
C17_GrowthTransition ==
    [][(last'.op = "insert" /\ last'.outcome = "ok")
         => capacity' = IF /\ last'.inserted
                           /\ (size + 1) * LF_DEN > maxLoadFactor * capacity
                        THEN 2 * capacity
                        ELSE capacity]_vars

\* C17 witness: an insert that stored a new entry has just doubled the
\* capacity of a table with several entries.
C17_Witness ==
    /\ last.op = "insert"
    /\ last.outcome = "ok"
    /\ last.inserted
    /\ last.resized = "grow"
    /\ capacity = 2 * INITIAL_CPTY
    /\ size >= 2

C20_InsertionFailedOnlyWhenFull ==
    [][(last'.op = "insert")
         => (/\ (last'.outcome = "InsertionFailed")
                  => (/\ \A s \in DOMAIN table : table[s] # nullptr
                      /\ size = capacity
                      /\ ~contains(table, capacity, customHashFn, last'.k)
                      /\ table' = table)
             /\ ((\E s \in DOMAIN table : table[s] = nullptr)
                    /\ ~Stored(table, last'.k))
                  => (last'.outcome = "ok" /\ last'.inserted))]_vars

\* C19: threshold well-formedness.  0 < minLoadFactor < maxLoadFactor <= 1
\* holds in every state of a table, whether the thresholds were set by the
\* constructor or by setLoadFactors.
C19_ThresholdsWellFormed ==
    /\ 0 < minLoadFactor
    /\ minLoadFactor < maxLoadFactor
    /\ maxLoadFactor <= LF_DEN

\* The results of contains and getValue for every key on a table.
Lookups(tbl, cap) ==
    [k \in Keys |-> <<contains(tbl, cap, customHashFn, k),
                      getValue(tbl, cap, customHashFn, k)>>]

\* C16: copies are independent.  Once the second table has been made from
\* the first by copy construction or copy assignment, no insert, remove or
\* write through operator[] on one of them changes the result of contains or
\* getValue for any key on the other.
C16_CopiesIndependent ==
    [][(other.made # "none")
         => (/\ (last'.op \in {"insert", "remove", "indexWrite"})
                  => (Lookups(other'.table, other'.capacity)
                        = Lookups(other.table, other.capacity))
             /\ (last'.op \in {"insertOther", "removeOther",
                               "indexWriteOther"})
                  => (Lookups(table', capacity')
                        = Lookups(table, capacity)))]_vars

=============================================================================
